---- MODULE Spec2Model ----
(***************************************************************************)
(* A model of the spreadsheet engine: Sheet (position -> cell map), Cell    *)
(* (Empty / Text / Formula content, memoized value, reverse dependencies), *)
(* the formula facade and AST evaluation, and the Position value type.     *)
(*                                                                         *)
(* Strings are sequences of one-character strings, cells live at heap      *)
(* addresses, doubles are exact rationals [n, d] (d > 0, lowest terms).    *)
(***************************************************************************)
EXTENDS Integers, Sequences, FiniteSets

\* ------------------------------------------------------------------ bounds
\* Number of API calls in a run.
MaxOps == 4
\* Number of heap addresses a Cell object can be allocated at.
NumAddrs == 3
\* Number of operators nested around an atom in an expression tree.
MaxExprDepth == 3

\* -------------------------------------------------------- program constants
LETTERS == 26
MAX_POS_LETTER_COUNT == 3
MAX_ROWS == 16384
MAX_COLS == 16384

FORMULA_SIGN == "="
ESCAPE_SIGN == "'"

\* ----------------------------------------------------------------- helpers
UpperLetters ==
    << "A", "B", "C", "D", "E", "F", "G", "H", "I", "J", "K", "L", "M",
       "N", "O", "P", "Q", "R", "S", "T", "U", "V", "W", "X", "Y", "Z" >>

DigitChars == << "0", "1", "2", "3", "4", "5", "6", "7", "8", "9" >>

Range(s) == { s[i] : i \in DOMAIN s }

IndexOf(s, c) == CHOOSE i \in DOMAIN s : s[i] = c

IsUpperChar(c) == c \in Range(UpperLetters)

IsDigitChar(c) == c \in Range(DigitChars)

LetterValue(c) == IndexOf(UpperLetters, c) - 1

DigitValue(c) == IndexOf(DigitChars, c) - 1

\* std::find_if_not(first, last, pred): index of the first element at or after
\* `from` that fails the predicate, Len(s) + 1 when there is none.
RECURSIVE FindIfNotUpper(_, _)
FindIfNotUpper(s, from) ==
    IF from > Len(s) THEN from
    ELSE IF IsUpperChar(s[from]) THEN FindIfNotUpper(s, from + 1)
    ELSE from

RECURSIVE FindIfNotDigit(_, _)
FindIfNotDigit(s, from) ==
    IF from > Len(s) THEN from
    ELSE IF IsDigitChar(s[from]) THEN FindIfNotDigit(s, from + 1)
    ELSE from

\* ---------------------------------------------------------------- Position
Pos(r, c) == [row |-> r, col |-> c]

NONE == Pos(-1, -1)

IsValid(p) == p.row >= 0 /\ p.col >= 0 /\ p.row < MAX_ROWS /\ p.col < MAX_COLS

\* Position::operator< : std::tie(row, col) < std::tie(rhs.row, rhs.col)
PosLess(p, q) == p.row < q.row \/ (p.row = q.row /\ p.col < q.col)

INT_MAX == 2147483647

\* std::stoi on a non-empty string of decimal digits: the value, or -1 for the
\* std::out_of_range it throws when the value does not fit an int.
RECURSIVE StoiDigits(_, _, _)
StoiDigits(s, i, acc) ==
    IF i > Len(s) THEN acc
    ELSE IF acc > (INT_MAX - DigitValue(s[i])) \div 10 THEN -1
    ELSE StoiDigits(s, i + 1, acc * 10 + DigitValue(s[i]))

RECURSIVE ColumnOfLetters(_, _, _)
ColumnOfLetters(s, i, column) ==
    IF i > Len(s) THEN column
    ELSE ColumnOfLetters(s, i + 1, column * LETTERS + LetterValue(s[i]) + 1)

FromString(str) ==
    IF Len(str) = 0 THEN NONE
    ELSE
      LET it_letters == FindIfNotUpper(str, 1)
          it_digits  == FindIfNotDigit(str, it_letters)
          position   == it_letters - 1
      IN  IF it_letters = 1 \/ it_letters = Len(str) + 1 THEN NONE
          ELSE IF it_digits # Len(str) + 1 THEN NONE
          ELSE IF position > MAX_POS_LETTER_COUNT THEN NONE
          ELSE
            LET letters == SubSeq(str, 1, position)
                digits  == SubSeq(str, position + 1, Len(str))
                row     == StoiDigits(digits, 1, 0)
                column  == ColumnOfLetters(letters, 1, 0)
            IN  IF row = -1 THEN NONE ELSE Pos(row - 1, column - 1)

\* std::to_string of a non-negative int
RECURSIVE NatToString(_)
NatToString(n) ==
    IF n < 10 THEN << DigitChars[n + 1] >>
    ELSE Append(NatToString(n \div 10), DigitChars[(n % 10) + 1])

\* The letters of ToString computed as positional base 26 with A as zero:
\* the step to the next letter is column / LETTERS, without the - 1.
RECURSIVE ColumnLettersPositional(_)
ColumnLettersPositional(column) ==
    IF column < LETTERS THEN << UpperLetters[column + 1] >>
    ELSE << UpperLetters[(column % LETTERS) + 1] >>
         \o ColumnLettersPositional(column \div LETTERS)

\* The letters of ToString, least significant first, before std::reverse.
RECURSIVE ColumnLetters(_)
ColumnLetters(column) ==
    IF column < 0 THEN << >>
    ELSE << UpperLetters[(column % LETTERS) + 1] >>
         \o ColumnLetters((column \div LETTERS) - 1)

Reverse(s) == [ i \in 1..Len(s) |-> s[Len(s) + 1 - i] ]

ToString(p) ==
    IF ~IsValid(p) THEN << >>
    ELSE Reverse(ColumnLetters(p.col)) \o NatToString(p.row + 1)

\* ------------------------------------------------------------------ double
\* A double is [n, d]: the rational n/d in lowest terms with d > 0, or a
\* non-finite value with d = 0 (n = 1: +inf, n = -1: -inf, n = 0: NaN).
Abs(x) == IF x < 0 THEN -x ELSE x

Sign(x) == IF x < 0 THEN -1 ELSE IF x > 0 THEN 1 ELSE 0

RECURSIVE Gcd(_, _)
Gcd(a, b) == IF b = 0 THEN a ELSE Gcd(b, a % b)

Dbl(n, d) ==
    IF d = 0 THEN [n |-> Sign(n), d |-> 0]
    ELSE LET g == Gcd(Abs(n), Abs(d))
         IN  [n |-> (Sign(d) * n) \div g, d |-> Abs(d) \div g]

IsFinite(x) == x.d # 0

IsNaN(x) == x.d = 0 /\ x.n = 0

DblPlus(l, r) ==
    IF IsNaN(l) \/ IsNaN(r) THEN Dbl(0, 0)
    ELSE IF ~IsFinite(l) /\ ~IsFinite(r) THEN (IF l.n = r.n THEN l ELSE Dbl(0, 0))
    ELSE IF ~IsFinite(l) THEN l
    ELSE IF ~IsFinite(r) THEN r
    ELSE Dbl(l.n * r.d + r.n * l.d, l.d * r.d)

DblNeg(x) == [n |-> -x.n, d |-> x.d]

DblMinus(l, r) == DblPlus(l, DblNeg(r))

DblMultiplies(l, r) ==
    IF IsNaN(l) \/ IsNaN(r) THEN Dbl(0, 0)
    ELSE IF ~IsFinite(l) \/ ~IsFinite(r) THEN Dbl(Sign(l.n) * Sign(r.n), 0)
    ELSE Dbl(l.n * r.n, l.d * r.d)

\* IEEE-754 division: x/0 is +-inf, 0/0 and inf/inf are NaN.
DblDivides(l, r) ==
    IF IsNaN(l) \/ IsNaN(r) THEN Dbl(0, 0)
    ELSE IF ~IsFinite(l) /\ ~IsFinite(r) THEN Dbl(0, 0)
    ELSE IF ~IsFinite(l) THEN Dbl(l.n * (IF r.n < 0 THEN -1 ELSE 1), 0)
    ELSE IF ~IsFinite(r) THEN Dbl(0, 1)
    ELSE IF r.n = 0 THEN Dbl(Sign(l.n), 0)
    ELSE Dbl(l.n * r.d, l.d * r.n)

RECURSIVE Pow10(_)
Pow10(k) == IF k = 0 THEN 1 ELSE 10 * Pow10(k - 1)

\* The value of a digit string read as a decimal integer (no width limit).
RECURSIVE DigitsValue(_, _, _)
DigitsValue(s, i, acc) ==
    IF i > Len(s) THEN acc ELSE DigitsValue(s, i + 1, acc * 10 + DigitValue(s[i]))

\* ------------------------------------------------------------- formula AST
NumberExpr(v) == [type |-> "Number", value |-> v]

CellExpr(p) == [type |-> "Cell", cell |-> p]

UnaryOpExpr(op, operand) == [type |-> "UnaryOp", op |-> op, operand |-> operand]

BinaryOpExpr(op, lhs, rhs) == [type |-> "BinaryOp", op |-> op, lhs |-> lhs, rhs |-> rhs]

\* ------------------------------------------------------ lexer (the grammar)
\*   NUMBER := ([0-9]+ ('.' [0-9]*)? | '.' [0-9]+) ([eE] [+-]? [0-9]+)?
\*   CELL   := [A-Z]{1,3}[0-9]+
\*   ADD SUB MUL DIV '(' ')', whitespace skipped
WhiteSpace == { " " }

Punctuation == { "+", "-", "*", "/", "(", ")" }

Token(kind, text) == [kind |-> kind, text |-> text]

LexError == << Token("ERROR", << >>) >>

\* Where the mantissa [0-9]+ ('.' [0-9]*)? | '.' [0-9]+ that starts at i ends
\* (the index after it), i when none starts there.
MantissaEnd(s, i) ==
    LET intEnd == FindIfNotDigit(s, i)
    IN  IF intEnd > i
        THEN IF intEnd <= Len(s) /\ s[intEnd] = "."
             THEN FindIfNotDigit(s, intEnd + 1)
             ELSE intEnd
        ELSE IF i <= Len(s) /\ s[i] = "." /\ FindIfNotDigit(s, i + 1) > i + 1
             THEN FindIfNotDigit(s, i + 1)
             ELSE i

\* Where the exponent [eE] [+-]? [0-9]+ that starts at i ends, i when none
\* starts there.
ExponentEnd(s, i) ==
    IF i <= Len(s) /\ s[i] \in { "e", "E" }
    THEN LET from == IF i + 1 <= Len(s) /\ s[i + 1] \in { "+", "-" } THEN i + 2 ELSE i + 1
         IN  IF FindIfNotDigit(s, from) > from THEN FindIfNotDigit(s, from) ELSE i
    ELSE i

\* The NUMBER token that starts at i (longest match), << >> when none does.
NumberLexeme(s, i) ==
    IF MantissaEnd(s, i) > i
    THEN SubSeq(s, i, ExponentEnd(s, MantissaEnd(s, i)) - 1)
    ELSE << >>

\* The CELL token that starts at i, << >> when none does.
CellLexeme(s, i) ==
    LET lettersEnd == FindIfNotUpper(s, i)
        digitsEnd  == FindIfNotDigit(s, lettersEnd)
    IN  IF lettersEnd > i /\ lettersEnd - i <= MAX_POS_LETTER_COUNT
           /\ digitsEnd > lettersEnd
        THEN SubSeq(s, i, digitsEnd - 1)
        ELSE << >>

\* The token sequence of s from index i on; a sequence ending in an ERROR
\* token when a character starts no token (BailErrorListener::syntaxError).
RECURSIVE Lex(_, _)
Lex(s, i) ==
    IF i > Len(s) THEN << >>
    ELSE IF s[i] \in WhiteSpace THEN Lex(s, i + 1)
    ELSE IF s[i] \in Punctuation THEN << Token(s[i], << s[i] >>) >> \o Lex(s, i + 1)
    ELSE IF NumberLexeme(s, i) # << >>
         THEN << Token("NUMBER", NumberLexeme(s, i)) >>
              \o Lex(s, i + Len(NumberLexeme(s, i)))
    ELSE IF CellLexeme(s, i) # << >>
         THEN << Token("CELL", CellLexeme(s, i)) >>
              \o Lex(s, i + Len(CellLexeme(s, i)))
    ELSE LexError

\* x * 10^k for a finite x, cancelling common factors before multiplying.
Scale10(x, k) ==
    IF k >= 0
    THEN Dbl(x.n * (Pow10(k) \div Gcd(Pow10(k), x.d)), x.d \div Gcd(Pow10(k), x.d))
    ELSE Dbl(x.n \div Gcd(Pow10(-k), Abs(x.n)),
             x.d * (Pow10(-k) \div Gcd(Pow10(-k), Abs(x.n))))

\* The value of the exponent text [eE] [+-]? [0-9]+, 0 for the empty text.
ExponentValue(text) ==
    IF text = << >> THEN 0
    ELSE IF text[2] = "-" THEN -DigitsValue(text, 3, 0)
    ELSE IF text[2] = "+" THEN DigitsValue(text, 3, 0)
    ELSE DigitsValue(text, 2, 0)

\* ParseASTListener::exitLiteral: `in >> value` on the NUMBER token's text.
\* The value is exact; literals beyond the range of a double are not read.
LiteralValue(text) ==
    LET intEnd  == FindIfNotDigit(text, 1)
        mantEnd == MantissaEnd(text, 1)
        whole   == DigitsValue(SubSeq(text, 1, intEnd - 1), 1, 0)
        frac    == SubSeq(text, intEnd + 1, mantEnd - 1)
    IN  Scale10(Dbl(whole * Pow10(Len(frac)) + DigitsValue(frac, 1, 0), Pow10(Len(frac))),
                ExponentValue(SubSeq(text, mantEnd, Len(text))))

\* ----------------------------------------------------- parser (the grammar)
\*   main := expr EOF
\*   expr := expr ('+'|'-') expr | expr ('*'|'/') expr | ('+'|'-') expr
\*         | '(' expr ')' | NUMBER | CELL
\* A parse result is [ok, e, i]: success, the tree, the index of the next
\* token.  A CELL token is kept as text: exitCell converts it on the walk.
ParseFail == [ok |-> FALSE, e |-> << >>, i |-> 0]

ParseOk(e, i) == [ok |-> TRUE, e |-> e, i |-> i]

BinaryPrecedence(kind) ==
    IF kind \in { "+", "-" } THEN 1 ELSE IF kind \in { "*", "/" } THEN 2 ELSE 0

RECURSIVE ParseExpr(_, _, _)
RECURSIVE ParseUnary(_, _)
RECURSIVE ParseBinaryRest(_, _, _, _)

ParseUnary(ts, i) ==
    IF i > Len(ts) THEN ParseFail
    ELSE IF ts[i].kind \in { "+", "-" }
         THEN LET r == ParseUnary(ts, i + 1)
              IN  IF r.ok THEN ParseOk(UnaryOpExpr(ts[i].kind, r.e), r.i) ELSE ParseFail
    ELSE IF ts[i].kind = "("
         THEN LET r == ParseExpr(ts, i + 1, 1)
              IN  IF r.ok /\ r.i <= Len(ts) /\ ts[r.i].kind = ")"
                  THEN ParseOk(r.e, r.i + 1) ELSE ParseFail
    ELSE IF ts[i].kind = "NUMBER" THEN ParseOk(NumberExpr(LiteralValue(ts[i].text)), i + 1)
    ELSE IF ts[i].kind = "CELL" THEN ParseOk([type |-> "CellToken", text |-> ts[i].text], i + 1)
    ELSE ParseFail

ParseBinaryRest(ts, lhs, i, minPrec) ==
    IF i <= Len(ts) /\ BinaryPrecedence(ts[i].kind) >= minPrec
                    /\ BinaryPrecedence(ts[i].kind) > 0
    THEN LET r == ParseExpr(ts, i + 1, BinaryPrecedence(ts[i].kind) + 1)
         IN  IF r.ok THEN ParseBinaryRest(ts, BinaryOpExpr(ts[i].kind, lhs, r.e), r.i, minPrec)
             ELSE ParseFail
    ELSE ParseOk(lhs, i)

ParseExpr(ts, i, minPrec) ==
    LET l == ParseUnary(ts, i)
    IN  IF l.ok THEN ParseBinaryRest(ts, l.e, l.i, minPrec) ELSE ParseFail

ParseMain(ts) ==
    LET r == ParseExpr(ts, 1, 1)
    IN  IF r.ok /\ r.i = Len(ts) + 1 THEN r ELSE ParseFail

\* ---------------------------------------------------------------- printing
\* ExprPrecedence and PrecedenceRule
EP_ADD == 0
EP_SUB == 1
EP_MUL == 2
EP_DIV == 3
EP_UNARY == 4
EP_ATOM == 5

PR_NONE == 0
PR_LEFT == 1
PR_RIGHT == 2
PR_BOTH == 3

\* PRECEDENCE_RULES[parent][child], indexed from 1 here.
PRECEDENCE_RULES ==
    << << PR_NONE,  PR_NONE,  PR_NONE,  PR_NONE,  PR_NONE, PR_NONE >>,
       << PR_RIGHT, PR_RIGHT, PR_NONE,  PR_NONE,  PR_NONE, PR_NONE >>,
       << PR_BOTH,  PR_BOTH,  PR_NONE,  PR_NONE,  PR_NONE, PR_NONE >>,
       << PR_BOTH,  PR_BOTH,  PR_RIGHT, PR_RIGHT, PR_NONE, PR_NONE >>,
       << PR_BOTH,  PR_BOTH,  PR_NONE,  PR_NONE,  PR_NONE, PR_NONE >>,
       << PR_NONE,  PR_NONE,  PR_NONE,  PR_NONE,  PR_NONE, PR_NONE >> >>

\* rule & mask, for a mask of one bit
BitAnd(rule, mask) == IF (rule \div mask) % 2 = 1 THEN mask ELSE 0

GetPrecedence(e) ==
    CASE e.type = "BinaryOp" ->
            (CASE e.op = "+" -> EP_ADD [] e.op = "-" -> EP_SUB
               [] e.op = "*" -> EP_MUL [] e.op = "/" -> EP_DIV)
      [] e.type = "UnaryOp" -> EP_UNARY
      [] OTHER -> EP_ATOM

\* operator<<(std::ostream&, double) with the stream's defaults (%g, six
\* significant digits).
Precision == 6

\* The largest X with 10^X <= n/d, for n, d > 0.
RECURSIVE FloorLog10(_, _, _)
FloorLog10(n, d, x) ==
    IF n >= d
    THEN IF n >= d * Pow10(x + 1) THEN FloorLog10(n, d, x + 1) ELSE x
    ELSE IF n * Pow10(-x) >= d THEN x ELSE FloorLog10(n, d, x - 1)

\* n/d rounded to the nearest integer, ties to even.
RoundDiv(n, d) ==
    LET q == n \div d
        r == n % d
    IN  IF 2 * r > d \/ (2 * r = d /\ q % 2 = 1) THEN q + 1 ELSE q

\* n as exactly `width` decimal digits (leading zeros kept).
RECURSIVE FixedDigits(_, _)
FixedDigits(n, width) ==
    IF width = 0 THEN << >>
    ELSE Append(FixedDigits(n \div 10, width - 1), DigitChars[(n % 10) + 1])

RECURSIVE StripTrailingZeros(_)
StripTrailingZeros(s) ==
    IF s # << >> /\ s[Len(s)] = "0" THEN StripTrailingZeros(SubSeq(s, 1, Len(s) - 1)) ELSE s

WithFraction(whole, frac) ==
    IF StripTrailingZeros(frac) = << >> THEN whole
    ELSE whole \o << "." >> \o StripTrailingZeros(frac)

DoubleToString(x) ==
    IF ~IsFinite(x)
    THEN (IF x.n = 0 THEN << "n", "a", "n" >>
          ELSE IF x.n > 0 THEN << "i", "n", "f" >> ELSE << "-", "i", "n", "f" >>)
    ELSE IF x.n = 0 THEN << "0" >>
    ELSE
      LET n      == Abs(x.n)
          x0     == FloorLog10(n, x.d, 0)
          scale0 == Precision - 1 - x0
          m0     == IF scale0 >= 0 THEN RoundDiv(n * Pow10(scale0), x.d)
                    ELSE RoundDiv(n, x.d * Pow10(-scale0))
          carry  == m0 = Pow10(Precision)
          m      == IF carry THEN Pow10(Precision - 1) ELSE m0
          X      == IF carry THEN x0 + 1 ELSE x0
          sign   == IF x.n < 0 THEN << "-" >> ELSE << >>
          digits == FixedDigits(m, Precision)
      IN  IF X >= -4 /\ X < Precision
          THEN IF X >= 0
               THEN sign \o WithFraction(SubSeq(digits, 1, X + 1),
                                         SubSeq(digits, X + 2, Precision))
               ELSE sign \o WithFraction(<< "0" >>, FixedDigits(0, -X - 1) \o digits)
          ELSE sign \o WithFraction(<< digits[1] >>, SubSeq(digits, 2, Precision))
                    \o << "e", IF X < 0 THEN "-" ELSE "+" >>
                    \o (IF Abs(X) < 10 THEN << "0" >> ELSE << >>) \o NatToString(Abs(X))

\* Expr::PrintFormula with the mask the other way round: PR_LEFT for a right
\* child, PR_RIGHT for a left one.
RECURSIVE PrintFormulaMaskSwapped(_, _, _)
PrintFormulaMaskSwapped(e, parent_precedence, right_child) ==
    LET precedence    == GetPrecedence(e)
        mask          == IF right_child THEN PR_LEFT ELSE PR_RIGHT
        parens_needed ==
            BitAnd(PRECEDENCE_RULES[parent_precedence + 1][precedence + 1], mask) # 0
        body ==
            CASE e.type = "BinaryOp" ->
                    PrintFormulaMaskSwapped(e.lhs, precedence, FALSE) \o << e.op >>
                    \o PrintFormulaMaskSwapped(e.rhs, precedence, TRUE)
              [] e.type = "UnaryOp" ->
                    << e.op >> \o PrintFormulaMaskSwapped(e.operand, precedence, FALSE)
              [] e.type = "Cell" ->
                    IF ~IsValid(e.cell) THEN << "#", "R", "E", "F", "!" >>
                    ELSE ToString(e.cell)
              [] e.type = "Number" -> DoubleToString(e.value)
    IN  IF parens_needed THEN << "(" >> \o body \o << ")" >> ELSE body

\* Expr::PrintFormula with DoPrintFormula of the four node types.
RECURSIVE PrintFormula(_, _, _)
PrintFormula(e, parent_precedence, right_child) ==
    LET precedence    == GetPrecedence(e)
        mask          == IF right_child THEN PR_RIGHT ELSE PR_LEFT
        parens_needed ==
            BitAnd(PRECEDENCE_RULES[parent_precedence + 1][precedence + 1], mask) # 0
        body ==
            CASE e.type = "BinaryOp" ->
                    PrintFormula(e.lhs, precedence, FALSE) \o << e.op >>
                    \o PrintFormula(e.rhs, precedence, TRUE)
              [] e.type = "UnaryOp" ->
                    << e.op >> \o PrintFormula(e.operand, precedence, FALSE)
              [] e.type = "Cell" ->
                    IF ~IsValid(e.cell) THEN << "#", "R", "E", "F", "!" >>
                    ELSE ToString(e.cell)
              [] e.type = "Number" -> DoubleToString(e.value)
    IN  IF parens_needed THEN << "(" >> \o body \o << ")" >> ELSE body

\* Formula::GetExpression (FormulaAST::PrintFormula)
GetExpression(ast) == PrintFormula(ast.root_expr_, EP_ATOM, FALSE)

\* ParseTreeWalker with ParseASTListener: CELL tokens become CellExpr nodes,
\* cells_ collects the positions (push_front, so the last one walked is first).
WalkFail == [ok |-> FALSE, e |-> << >>, cells |-> << >>]

RECURSIVE Walk(_)
Walk(e) ==
    CASE e.type = "Number" -> [ok |-> TRUE, e |-> e, cells |-> << >>]
      [] e.type = "CellToken" ->
            LET value == FromString(e.text)
            IN  IF ~IsValid(value) THEN WalkFail
                ELSE [ok |-> TRUE, e |-> CellExpr(value), cells |-> << value >>]
      [] e.type = "UnaryOp" ->
            LET r == Walk(e.operand)
            IN  IF r.ok THEN [r EXCEPT !.e = UnaryOpExpr(e.op, r.e)] ELSE WalkFail
      [] e.type = "BinaryOp" ->
            LET l == Walk(e.lhs)
                r == Walk(e.rhs)
            IN  IF l.ok /\ r.ok
                THEN [ok |-> TRUE, e |-> BinaryOpExpr(e.op, l.e, r.e),
                      cells |-> r.cells \o l.cells]
                ELSE WalkFail

\* std::forward_list::sort by Position::operator< (duplicates kept).
RECURSIVE InsertSorted(_, _)
InsertSorted(sorted, p) ==
    IF sorted = << >> THEN << p >>
    ELSE IF PosLess(p, Head(sorted)) THEN << p >> \o sorted
    ELSE << Head(sorted) >> \o InsertSorted(Tail(sorted), p)

RECURSIVE SortPositions(_)
SortPositions(ps) ==
    IF ps = << >> THEN << >> ELSE InsertSorted(SortPositions(Tail(ps)), Head(ps))

\* ParseFormulaAST(std::istream&) followed by the FormulaAST constructor:
\* [error, root_expr_, cells_], error "" on success.
ParseFormulaASTStream(in) ==
    LET FormulaAST(listener) ==
            IF ~listener.ok
            THEN [error |-> "FormulaException", root_expr_ |-> << >>, cells_ |-> << >>]
            ELSE [error |-> "", root_expr_ |-> listener.e,
                  cells_ |-> SortPositions(listener.cells)]
        Walked(tree) ==
            IF ~tree.ok
            THEN [error |-> "ParsingError", root_expr_ |-> << >>, cells_ |-> << >>]
            ELSE FormulaAST(Walk(tree.e))
    IN  Walked(ParseMain(Lex(in, 1)))

\* ParseFormulaAST(const std::string&): whatever is thrown inside is caught
\* and replaced by FormulaException.
ParseFormulaAST(in_str) ==
    LET Rethrown(ast) ==
            IF ast.error # "" THEN [ast EXCEPT !.error = "FormulaException"] ELSE ast
    IN  Rethrown(ParseFormulaASTStream(in_str))

\* ParseFormula: the Formula object owning the FormulaAST, [error, ast_].
ParseFormula(expression) ==
    LET Formula(ast) ==
            [error |-> ast.error,
             ast_ |-> [root_expr_ |-> ast.root_expr_, cells_ |-> ast.cells_]]
    IN  Formula(ParseFormulaAST(expression))

\* ------------------------------------------------------------------ values
StringValue(s) == [t |-> "string", s |-> s]

DoubleValue(x) == [t |-> "double", x |-> x]

ErrorValue(category) == [t |-> "FormulaError", category |-> category]

\* Formula::GetReferencedCells: the valid positions of cells_, through a
\* std::set, as a sorted vector without duplicates.
RECURSIVE UniqueSorted(_)
UniqueSorted(ps) ==
    IF Len(ps) <= 1 THEN ps
    ELSE IF ps[1] = ps[2] THEN UniqueSorted(Tail(ps))
    ELSE << ps[1] >> \o UniqueSorted(Tail(ps))

FormulaGetReferencedCells(ast) ==
    UniqueSorted(SortPositions(SelectSeq(ast.cells_, IsValid)))

\* ------------------------------------------------------------- Cell::Impl
EmptyImpl == [kind |-> "Empty"]

TextImpl(text) == [kind |-> "Text", text_ |-> text]

CellCache == [value |-> StringValue(<< >>), is_valid |-> FALSE]

FormulaImpl(ast) == [kind |-> "Formula", formula_ |-> ast, cache_ |-> CellCache]

ImplGetReferencedCells(impl) ==
    IF impl.kind = "Formula" THEN FormulaGetReferencedCells(impl.formula_) ELSE << >>

ImplInvalidateCache(impl) ==
    IF impl.kind = "Formula" THEN [impl EXCEPT !.cache_.is_valid = FALSE] ELSE impl

\* A Cell object right after construction (Cell::Cell).
NewCell == [impl_ |-> EmptyImpl, back_dependencies_ |-> {}]

\* The content of a heap address that holds no Cell.
NoObject == [impl_ |-> [kind |-> "None"], back_dependencies_ |-> {}]

\* -------------------------------------------------------------- evaluation
\* std::stod(str, &pos): [ok, number, pos]; ok is FALSE when it throws
\* std::invalid_argument (no conversion could be performed).
LowerLetters ==
    << "a", "b", "c", "d", "e", "f", "g", "h", "i", "j", "k", "l", "m",
       "n", "o", "p", "q", "r", "s", "t", "u", "v", "w", "x", "y", "z" >>

ToLowerChar(c) == IF IsUpperChar(c) THEN LowerLetters[IndexOf(UpperLetters, c)] ELSE c

HexDigitChars ==
    << "0", "1", "2", "3", "4", "5", "6", "7", "8", "9", "a", "b", "c", "d", "e", "f" >>

IsHexDigitChar(c) == ToLowerChar(c) \in Range(HexDigitChars)

HexDigitValue(c) == IndexOf(HexDigitChars, ToLowerChar(c)) - 1

RECURSIVE FindIfNotHexDigit(_, _)
FindIfNotHexDigit(s, from) ==
    IF from > Len(s) THEN from
    ELSE IF IsHexDigitChar(s[from]) THEN FindIfNotHexDigit(s, from + 1)
    ELSE from

RECURSIVE HexDigitsValue(_, _, _)
HexDigitsValue(s, i, acc) ==
    IF i > Len(s) THEN acc ELSE HexDigitsValue(s, i + 1, acc * 16 + HexDigitValue(s[i]))

RECURSIVE Pow(_, _)
Pow(b, k) == IF k = 0 THEN 1 ELSE b * Pow(b, k - 1)

\* s has `word` (lower case) at index i, letter case ignored.
HasWordAt(s, i, word) ==
    /\ i + Len(word) - 1 <= Len(s)
    /\ \A k \in 1..Len(word) : ToLowerChar(s[i + k - 1]) = word[k]

\* The characters isspace accepts, which strtod skips.
Spaces == { " ", "\t", "\n", "\r" }

RECURSIVE SkipSpaces(_, _)
SkipSpaces(s, i) ==
    IF i <= Len(s) /\ s[i] \in Spaces THEN SkipSpaces(s, i + 1) ELSE i

\* The hexadecimal form 0x h+ ('.' h*)? | 0x '.' h+, then ([pP] [+-]? [0-9]+)?,
\* starting at i: [end, number], end = i when the form does not start there.
HexSubject(s, i) ==
    LET from    == i + 2
        intEnd  == FindIfNotHexDigit(s, from)
        fracEnd == IF intEnd <= Len(s) /\ s[intEnd] = "."
                   THEN FindIfNotHexDigit(s, intEnd + 1) ELSE intEnd
        digits  == (intEnd - from) + (IF fracEnd > intEnd THEN fracEnd - intEnd - 1 ELSE 0)
        frac    == SubSeq(s, intEnd + 1, fracEnd - 1)
        value   == Dbl(HexDigitsValue(SubSeq(s, from, intEnd - 1), 1, 0) * Pow(16, Len(frac))
                         + HexDigitsValue(frac, 1, 0),
                       Pow(16, Len(frac)))
        expFrom == IF fracEnd + 1 <= Len(s) /\ s[fracEnd + 1] \in { "+", "-" }
                   THEN fracEnd + 2 ELSE fracEnd + 1
        expEnd  == IF fracEnd <= Len(s) /\ s[fracEnd] \in { "p", "P" }
                      /\ FindIfNotDigit(s, expFrom) > expFrom
                   THEN FindIfNotDigit(s, expFrom) ELSE fracEnd
        exp     == IF expEnd = fracEnd THEN 0
                   ELSE IF s[fracEnd + 1] = "-"
                        THEN -DigitsValue(SubSeq(s, expFrom, expEnd - 1), 1, 0)
                   ELSE DigitsValue(SubSeq(s, expFrom, expEnd - 1), 1, 0)
    IN  IF ~(HasWordAt(s, i, << "0", "x" >>) /\ digits > 0)
        THEN [end |-> i, number |-> Dbl(0, 1)]
        ELSE [end |-> expEnd,
              number |-> IF exp >= 0 THEN Dbl(value.n * Pow(2, exp), value.d)
                         ELSE Dbl(value.n, value.d * Pow(2, -exp))]

\* Where the form nan | nan '(' [0-9A-Za-z_]* ')' that starts at i ends.
RECURSIVE NanCharsEnd(_, _)
NanCharsEnd(s, i) ==
    IF i <= Len(s) /\ (IsDigitChar(s[i]) \/ IsUpperChar(s[i])
                        \/ s[i] \in Range(LowerLetters) \/ s[i] = "_")
    THEN NanCharsEnd(s, i + 1) ELSE i

NanEnd(s, i) ==
    IF i + 3 <= Len(s) /\ s[i + 3] = "("
       /\ NanCharsEnd(s, i + 4) <= Len(s) /\ s[NanCharsEnd(s, i + 4)] = ")"
    THEN NanCharsEnd(s, i + 4) + 1
    ELSE i + 3

\* The subject sequence of strtod at index i, after white space and sign:
\* [end, number], end = i when no conversion can be performed.
StrtodSubject(s, i) ==
    IF HasWordAt(s, i, << "i", "n", "f", "i", "n", "i", "t", "y" >>)
    THEN [end |-> i + 8, number |-> Dbl(1, 0)]
    ELSE IF HasWordAt(s, i, << "i", "n", "f" >>) THEN [end |-> i + 3, number |-> Dbl(1, 0)]
    ELSE IF HasWordAt(s, i, << "n", "a", "n" >>) THEN [end |-> NanEnd(s, i), number |-> Dbl(0, 0)]
    ELSE IF HexSubject(s, i).end > i THEN HexSubject(s, i)
    ELSE [end |-> i + Len(NumberLexeme(s, i)),
          number |-> IF NumberLexeme(s, i) = << >> THEN Dbl(0, 1)
                     ELSE LiteralValue(NumberLexeme(s, i))]

\* std::stod(str, &pos): white space, an optional sign, then a decimal,
\* hexadecimal, infinity or NaN form.  Values are exact; strings whose value
\* is beyond the range of a double are not read.
StoD(str) ==
    LET start   == SkipSpaces(str, 1)
        signed  == start <= Len(str) /\ str[start] \in { "+", "-" }
        first   == IF signed THEN start + 1 ELSE start
        Converted(subject) ==
            IF subject.end = first THEN [ok |-> FALSE, number |-> Dbl(0, 1), pos |-> 0]
            ELSE [ok |-> TRUE,
                  number |-> IF signed /\ str[start] = "-" THEN DblNeg(subject.number)
                             ELSE subject.number,
                  pos |-> subject.end - 1]
    IN  Converted(StrtodSubject(str, first))

\* An evaluation step yields [thrown, x, heap]: thrown is "" on a normal
\* return, a FormulaError category when one is thrown, "StackOverflow" when
\* the recursion through cell references never returns; heap carries the
\* caches filled on the way.
Returned(x, hp) == [thrown |-> "", x |-> x, heap |-> hp]

Thrown(what, hp) == [thrown |-> what, x |-> Dbl(0, 1), heap |-> hp]

\* Evaluator without the std::isfinite test: the quotient is returned as it is.
EvaluatorUnchecked(answer, hp) == Returned(answer, hp)

\* The lambda Evaluator of BinaryOpExpr::Evaluate.
Evaluator(answer, hp) ==
    IF ~IsFinite(answer) THEN Thrown("Div0", hp) ELSE Returned(answer, hp)

\* The tail of CellExpr::Evaluate, once the referenced cell's value is known.
CellExprCoerce(value, hp) ==
    IF value.t = "FormulaError" THEN Thrown("Value", hp)
    ELSE IF value.t = "double" THEN Returned(value.x, hp)
    ELSE IF value.s = << >> THEN Returned(Dbl(0, 1), hp)
    ELSE LET parsed == StoD(value.s)
         IN  IF ~parsed.ok \/ parsed.pos # Len(value.s) THEN Thrown("Value", hp)
             ELSE Returned(parsed.number, hp)

RECURSIVE ExprEvaluate(_, _, _, _)
RECURSIVE CellGetValue(_, _, _, _)

\* Expr::Evaluate for the four node types; get_cell is sheet.GetCell over the
\* map sh, active the cells whose GetValue is on the call stack.
ExprEvaluate(e, sh, hp, active) ==
    CASE e.type = "Number" -> Returned(e.value, hp)
      [] e.type = "Cell" ->
            IF ~IsValid(e.cell) THEN Thrown("Ref", hp)
            ELSE IF e.cell \notin DOMAIN sh THEN Returned(Dbl(0, 1), hp)
            ELSE LET got == CellGetValue(sh[e.cell], sh, hp, active)
                 IN  IF got.thrown # "" THEN Thrown(got.thrown, got.heap)
                     ELSE CellExprCoerce(got.x, got.heap)
      [] e.type = "UnaryOp" ->
            LET operand == ExprEvaluate(e.operand, sh, hp, active)
            IN  IF operand.thrown # "" THEN operand
                ELSE IF e.op = "+" THEN operand
                ELSE Returned(DblMultiplies(Dbl(-1, 1), operand.x), operand.heap)
      [] e.type = "BinaryOp" ->
            LET lhs == ExprEvaluate(e.lhs, sh, hp, active)
                rhs == ExprEvaluate(e.rhs, sh, lhs.heap, active)
            IN  IF lhs.thrown # "" THEN lhs
                ELSE IF rhs.thrown # "" THEN rhs
                ELSE CASE e.op = "+" -> Evaluator(DblPlus(lhs.x, rhs.x), rhs.heap)
                       [] e.op = "-" -> Evaluator(DblMinus(lhs.x, rhs.x), rhs.heap)
                       [] e.op = "*" -> Evaluator(DblMultiplies(lhs.x, rhs.x), rhs.heap)
                       [] e.op = "/" -> Evaluator(DblDivides(lhs.x, rhs.x), rhs.heap)

\* Formula::Evaluate: a thrown FormulaError is caught and returned as a value.
FormulaEvaluate(ast, sh, hp, active) ==
    LET Caught(r) ==
            IF r.thrown = "" THEN [thrown |-> "", x |-> DoubleValue(r.x), heap |-> r.heap]
            ELSE IF r.thrown = "StackOverflow" THEN r
            ELSE [thrown |-> "", x |-> ErrorValue(r.thrown), heap |-> r.heap]
    IN  Caught(ExprEvaluate(ast.root_expr_, sh, hp, active))

\* Cell::GetValue with a FormulaImpl::GetValue that marks the cache valid
\* without the assignment cache_.value = ret.
CellGetValueValueNotStored(a, sh, hp, active) ==
    LET impl == hp[a].impl_
        Cached(value) ==
            IF value.thrown # "" THEN value
            ELSE Returned(value.x,
                          [value.heap EXCEPT ![a].impl_.cache_.is_valid = TRUE])
    IN  CASE impl.kind = "Empty" -> Returned(StringValue(<< >>), hp)
          [] impl.kind = "Text" ->
                IF Head(impl.text_) = ESCAPE_SIGN
                THEN Returned(StringValue(Tail(impl.text_)), hp)
                ELSE Returned(StringValue(impl.text_), hp)
          [] impl.kind = "Formula" ->
                IF impl.cache_.is_valid THEN Returned(impl.cache_.value, hp)
                ELSE IF a \in active THEN Thrown("StackOverflow", hp)
                ELSE Cached(FormulaEvaluate(impl.formula_, sh, hp, active \cup { a }))

\* Cell::GetValue on the cell at address a: Impl::GetValue of its content.
CellGetValue(a, sh, hp, active) ==
    LET impl == hp[a].impl_
        Cached(value) ==
            IF value.thrown # "" THEN value
            ELSE Returned(value.x,
                          [value.heap EXCEPT ![a].impl_.cache_ =
                             [value |-> value.x, is_valid |-> TRUE]])
    IN  CASE impl.kind = "Empty" -> Returned(StringValue(<< >>), hp)
          [] impl.kind = "Text" ->
                IF Head(impl.text_) = ESCAPE_SIGN
                THEN Returned(StringValue(Tail(impl.text_)), hp)
                ELSE Returned(StringValue(impl.text_), hp)
          [] impl.kind = "Formula" ->
                IF impl.cache_.is_valid THEN Returned(impl.cache_.value, hp)
                ELSE IF a \in active THEN Thrown("StackOverflow", hp)
                ELSE Cached(FormulaEvaluate(impl.formula_, sh, hp, active \cup { a }))

\* ------------------------------------------------------------ Cell (graph)
\* The address of the scratch Cell tmp_cell, an object on Cell::Set's stack.
TmpCellAddr == 0

Addrs == 1..NumAddrs

\* sheet_.GetCell(pos) != nullptr for a valid position; the cell is then the
\* one at address sh[pos].
Present(sh, pos) == pos \in DOMAIN sh

MapPut(sh, pos, a) == [ p \in (DOMAIN sh) \cup { pos } |-> IF p = pos THEN a ELSE sh[p] ]

MapErase(sh, pos) == [ p \in (DOMAIN sh) \ { pos } |-> sh[p] ]

\* cell->GetReferencedCells() during Cell::Set, where the scratch cell holds
\* tmpImpl.
RefsAt(a, tmpImpl, hp) ==
    IF a = TmpCellAddr THEN ImplGetReferencedCells(tmpImpl)
    ELSE ImplGetReferencedCells(hp[a].impl_)

\* Cell::ThrowIfHasCycle.  colors is visited_colors as [gray, black]; the
\* result is [thrown, colors].
RECURSIVE DFSPaint(_, _, _, _, _)
RECURSIVE DFSPaintRefs(_, _, _, _, _, _)

DFSPaint(cell, colors, tmpImpl, sh, hp) ==
    LET entered == IF cell \in colors.gray \cup colors.black THEN colors
                   ELSE [colors EXCEPT !.gray = @ \cup { cell }]
        done    == DFSPaintRefs(RefsAt(cell, tmpImpl, hp), 1, entered, tmpImpl, sh, hp)
    IN  IF done.thrown THEN done
        ELSE [thrown |-> FALSE,
              colors |-> [gray |-> done.colors.gray \ { cell },
                          black |-> done.colors.black \cup { cell }]]

DFSPaintRefs(refs, i, colors, tmpImpl, sh, hp) ==
    IF i > Len(refs) THEN [thrown |-> FALSE, colors |-> colors]
    ELSE IF ~Present(sh, refs[i]) THEN DFSPaintRefs(refs, i + 1, colors, tmpImpl, sh, hp)
    ELSE IF sh[refs[i]] \in colors.black
         THEN DFSPaintRefs(refs, i + 1, colors, tmpImpl, sh, hp)
    ELSE IF sh[refs[i]] \in colors.gray THEN [thrown |-> TRUE, colors |-> colors]
    ELSE LET sub == DFSPaint(sh[refs[i]], colors, tmpImpl, sh, hp)
         IN  IF sub.thrown THEN sub
             ELSE DFSPaintRefs(refs, i + 1, sub.colors, tmpImpl, sh, hp)

\* ThrowIfHasCycle looking one reference deep only: it throws when the new
\* content names this cell itself.
ThrowIfHasCycleDirect(this, tmpImpl, sh, hp) ==
    \E pos \in Range(ImplGetReferencedCells(tmpImpl)) :
        Present(sh, pos) /\ sh[pos] = this

\* ThrowIfHasCycle without visited_colors.emplace(this, DFSColor::Gray).
ThrowIfHasCycleUnmarked(this, tmpImpl, sh, hp) ==
    DFSPaint(TmpCellAddr, [gray |-> {}, black |-> {}], tmpImpl, sh, hp).thrown

ThrowIfHasCycle(this, tmpImpl, sh, hp) ==
    DFSPaint(TmpCellAddr, [gray |-> { this }, black |-> {}], tmpImpl, sh, hp).thrown

\* Cell::UpdateDependencies: [crashed, heap].  A position that is not in the
\* map makes GetCell return nullptr, and the member access through it ends
\* the program at that point.
RECURSIVE EraseBackDependency(_, _, _, _, _)
EraseBackDependency(this, deps, i, sh, hp) ==
    IF i > Len(deps) THEN [crashed |-> FALSE, heap |-> hp]
    ELSE IF ~Present(sh, deps[i]) THEN [crashed |-> TRUE, heap |-> hp]
    ELSE EraseBackDependency(this, deps, i + 1, sh,
            [hp EXCEPT ![sh[deps[i]]].back_dependencies_ = @ \ { this }])

RECURSIVE InsertBackDependency(_, _, _, _, _)
InsertBackDependency(this, deps, i, sh, hp) ==
    IF i > Len(deps) THEN [crashed |-> FALSE, heap |-> hp]
    ELSE IF ~Present(sh, deps[i]) THEN [crashed |-> TRUE, heap |-> hp]
    ELSE InsertBackDependency(this, deps, i + 1, sh,
            [hp EXCEPT ![sh[deps[i]]].back_dependencies_ = @ \cup { this }])

\* UpdateDependencies without its first loop: this cell is inserted into the
\* reverse-edge sets of the new referents and stays in those of the old ones.
UpdateDependenciesInsertOnly(this, old_deps, new_deps, sh, hp) ==
    InsertBackDependency(this, new_deps, 1, sh, hp)

UpdateDependencies(this, old_deps, new_deps, sh, hp) ==
    LET erased == EraseBackDependency(this, old_deps, 1, sh, hp)
    IN  IF erased.crashed THEN erased
        ELSE InsertBackDependency(this, new_deps, 1, sh, erased.heap)

\* Cell::IsReferenced
IsReferenced(a, hp) == Cardinality(hp[a].back_dependencies_) # 0

\* Cell::InvalidateCache: the lambda DFS and its loop over the referents,
\* threading visited_cells.
RECURSIVE InvalidateDFS(_, _, _, _)
RECURSIVE InvalidateDFSRefs(_, _, _, _, _)

InvalidateDFS(pos, visited, sh, hp) ==
    IF ~Present(sh, pos) THEN visited
    ELSE InvalidateDFSRefs(ImplGetReferencedCells(hp[sh[pos]].impl_), 1,
                           visited \cup { sh[pos] }, sh, hp)

InvalidateDFSRefs(refs, i, visited, sh, hp) ==
    IF i > Len(refs) THEN visited
    ELSE IF ~Present(sh, refs[i]) THEN InvalidateDFSRefs(refs, i + 1, visited, sh, hp)
    ELSE IF sh[refs[i]] \notin visited
         THEN InvalidateDFSRefs(refs, i + 1, InvalidateDFS(refs[i], visited, sh, hp), sh, hp)
    ELSE InvalidateDFSRefs(refs, i + 1, visited, sh, hp)

RECURSIVE InvalidateFrom(_, _, _, _, _)
InvalidateFrom(refs, i, visited, sh, hp) ==
    IF i > Len(refs) THEN visited
    ELSE InvalidateFrom(refs, i + 1, InvalidateDFS(refs[i], visited, sh, hp), sh, hp)

InvalidateCache(this, sh, hp) ==
    LET visited_cells ==
            InvalidateFrom(ImplGetReferencedCells(hp[this].impl_), 1, { this }, sh, hp)
    IN  [ a \in DOMAIN hp |->
            IF a \in visited_cells
            THEN [hp[a] EXCEPT !.impl_ = ImplInvalidateCache(@)]
            ELSE hp[a] ]

\* ------------------------------------------------------------------ inputs
A1 == Pos(0, 0)
B1 == Pos(0, 1)
A2 == Pos(1, 0)

\* The first column past the sheet, in row 1.
PastLastColumn == Pos(0, MAX_COLS)

\* The positions calls are made with: three valid ones, Position::NONE and
\* one whose column is MAX_COLS.
Positions == { A1, B1, A2, NONE, PastLastColumn }

\* The texts SetCell is called with: "", "5", "=B1", "=A2", "=A1+B1", "=(".
Texts ==
    { << >>,
      << "5" >>,
      << "=", "B", "1" >>,
      << "=", "A", "2" >>,
      << "=", "A", "1", "+", "B", "1" >>,
      << "=", "(" >> }

\* ------------------------------------------------------------------- state
VARIABLES
    sheet_,     \* Sheet::sheet_: present position -> address of its Cell
    heap,       \* address -> the Cell object there (NoObject when none)
    allocated,  \* addresses the allocator has handed out so far
    crashed,    \* the process was ended by a null dereference or stack overflow
    last,       \* the last API call and how it ended
    before,     \* sheet_ and heap as they were when the last call was made
    nops,       \* number of API calls made
    arg,        \* the argument of a free function under study
    ret         \* what the free function returned for arg

vars == << sheet_, heap, allocated, crashed, last, before, nops, arg, ret >>

Call(op, pos, text, outcome, value) ==
    [op |-> op, pos |-> pos, text |-> text, outcome |-> outcome, value |-> value]

NoValue == StringValue(<< >>)

\* No free function is under study.
Nothing == [kind |-> "nothing"]

\* CreateSheet(): an empty map and no Cell anywhere.
InitSheet ==
    /\ sheet_ = << >>
    /\ heap = [ a \in Addrs |-> NoObject ]
    /\ allocated = {}
    /\ crashed = FALSE
    /\ last = Call("CreateSheet", NONE, << >>, "ok", NoValue)
    /\ before = [sheet_ |-> << >>, heap |-> [ a \in Addrs |-> NoObject ]]
    /\ nops = 0

Init ==
    /\ InitSheet
    /\ arg = Nothing
    /\ ret = Nothing

\* ---------------------------------------------------------------- allocator
Live(sh) == { sh[p] : p \in DOMAIN sh }

Min(S) == CHOOSE x \in S : \A y \in S : x <= y

\* Where operator new may place the next Cell: any address freed earlier, or
\* the first address never handed out.
AllocChoices(free, allocd) ==
    (free \cap allocd) \cup (IF free \ allocd = {} THEN {} ELSE { Min(free \ allocd) })

\* The address sequences n successive allocations may return.
RECURSIVE AllocSeqs(_, _, _)
AllocSeqs(n, free, allocd) ==
    IF n = 0 THEN { << >> }
    ELSE UNION { { << a >> \o rest : rest \in AllocSeqs(n - 1, free \ { a }, allocd \cup { a }) }
                 : a \in AllocChoices(free, allocd) }

\* ---------------------------------------------------------------- Cell::Set
\* Cell::Set up to the swap, reading a lone formula sign as an empty formula:
\* the text "=" gives Empty content.
CellSetStageLoneSignEmpty(this, text, sh, hp) ==
    IF text = << >> \/ text = << FORMULA_SIGN >> THEN [thrown |-> "", impl |-> EmptyImpl]
    ELSE IF Head(text) = FORMULA_SIGN
    THEN LET Checked(formula) ==
                 IF formula.error # "" THEN [thrown |-> formula.error, impl |-> EmptyImpl]
                 ELSE IF ThrowIfHasCycle(this, FormulaImpl(formula.ast_), sh, hp)
                      THEN [thrown |-> "CircularDependency", impl |-> EmptyImpl]
                 ELSE [thrown |-> "", impl |-> FormulaImpl(formula.ast_)]
         IN  Checked(ParseFormula(Tail(text)))
    ELSE [thrown |-> "", impl |-> TextImpl(text)]

\* Cell::Set up to the swap: the content built in tmp_cell, or what is thrown
\* before anything is swapped (FormulaImpl's constructor, ThrowIfHasCycle).
CellSetStage(this, text, sh, hp) ==
    IF text = << >> THEN [thrown |-> "", impl |-> EmptyImpl]
    ELSE IF Head(text) = FORMULA_SIGN /\ Len(text) > 1
    THEN LET Checked(formula) ==
                 IF formula.error # "" THEN [thrown |-> formula.error, impl |-> EmptyImpl]
                 ELSE IF ThrowIfHasCycle(this, FormulaImpl(formula.ast_), sh, hp)
                      THEN [thrown |-> "CircularDependency", impl |-> EmptyImpl]
                 ELSE [thrown |-> "", impl |-> FormulaImpl(formula.ast_)]
         IN  Checked(ParseFormula(Tail(text)))
    ELSE [thrown |-> "", impl |-> TextImpl(text)]

\* The referents of impl that sheet_.GetCell finds nullptr for, in order.
AbsentReferents(impl, sh) ==
    SelectSeq(ImplGetReferencedCells(impl), LAMBDA q : ~Present(sh, q))

\* sheet_.SetCell(ref_pos, {}) for each absent referent: a new Empty cell is
\* emplaced at the address the allocator returns.  [sheet, heap].
RECURSIVE InsertEmptyCells(_, _, _, _, _)
InsertEmptyCells(ps, addrs, i, sh, hp) ==
    IF i > Len(ps) THEN [sheet |-> sh, heap |-> hp]
    ELSE InsertEmptyCells(ps, addrs, i + 1, MapPut(sh, ps[i], addrs[i]),
                          [hp EXCEPT ![addrs[i]] = NewCell])

\* Cell::Set from the swap on: std::swap(impl_, tmp_cell.impl_), the empty
\* cells for absent referents (at addrs), UpdateDependencies with the old
\* and the new referents, InvalidateCache.  [crashed, sheet, heap].
CellSetCommit(this, impl, addrs, sh, hp) ==
    LET old_deps == ImplGetReferencedCells(hp[this].impl_)
        swapped  == [hp EXCEPT ![this].impl_ = impl]
        inserted == InsertEmptyCells(AbsentReferents(impl, sh), addrs, 1, sh, swapped)
        updated  == UpdateDependencies(this, old_deps, ImplGetReferencedCells(impl),
                                       inserted.sheet, inserted.heap)
    IN  IF updated.crashed
        THEN [crashed |-> TRUE, sheet |-> inserted.sheet, heap |-> updated.heap]
        ELSE [crashed |-> FALSE, sheet |-> inserted.sheet,
              heap |-> InvalidateCache(this, inserted.sheet, updated.heap)]

\* The rest of Cell::Set for the content `impl` built in tmp_cell, over every
\* address sequence the allocator may return for the cells it inserts: the
\* set of [outcome, sheet, heap, allocated].
CellSetCommitAll(this, impl, free, allocd, sh, hp) ==
    LET Outcome(done, addrs) ==
            [outcome |-> IF done.crashed THEN "crash" ELSE "ok",
             sheet |-> done.sheet, heap |-> done.heap,
             allocated |-> allocd \cup Range(addrs)]
    IN  { Outcome(CellSetCommit(this, impl, addrs, sh, hp), addrs)
          : addrs \in AllocSeqs(Len(AbsentReferents(impl, sh)), free, allocd) }

\* Cell::Set with a swap that comes before the cycle check: the cell keeps
\* the rejected formula when CircularDependency is thrown.
CellSetSwapBeforeCheck(this, text, free, allocd, sh, hp) ==
    LET Swapped(staged) ==
            IF staged.thrown = "CircularDependency"
            THEN { [outcome |-> staged.thrown, sheet |-> sh,
                    heap |-> [hp EXCEPT ![this].impl_ =
                                FormulaImpl(ParseFormula(Tail(text)).ast_)],
                    allocated |-> allocd] }
            ELSE IF staged.thrown # ""
            THEN { [outcome |-> staged.thrown, sheet |-> sh, heap |-> hp,
                    allocated |-> allocd] }
            ELSE CellSetCommitAll(this, staged.impl, free, allocd, sh, hp)
    IN  Swapped(CellSetStage(this, text, sh, hp))

\* Cell::Set that takes the cell out of the map when the new text is empty,
\* instead of giving it Empty content.
CellSetEmptyErases(this, text, free, allocd, sh, hp) ==
    LET Swapped(staged) ==
            IF staged.thrown # ""
            THEN { [outcome |-> staged.thrown, sheet |-> sh, heap |-> hp,
                    allocated |-> allocd] }
            ELSE CellSetCommitAll(this, staged.impl, free, allocd, sh, hp)
    IN  IF text = << >>
        THEN { [outcome |-> "ok",
                sheet |-> [ p \in { q \in DOMAIN sh : sh[q] # this } |-> sh[p] ],
                heap |-> [hp EXCEPT ![this] = NoObject],
                allocated |-> allocd] }
        ELSE Swapped(CellSetStage(this, text, sh, hp))

\* Cell::Set on the cell at address `this`, the allocator choosing among the
\* addresses in `free` for the cells it inserts: the set of
\* [outcome, sheet, heap, allocated] it can end in.  An exception leaves
\* before anything is swapped.
CellSet(this, text, free, allocd, sh, hp) ==
    LET Swapped(staged) ==
            IF staged.thrown # ""
            THEN { [outcome |-> staged.thrown, sheet |-> sh, heap |-> hp,
                    allocated |-> allocd] }
            ELSE CellSetCommitAll(this, staged.impl, free, allocd, sh, hp)
    IN  Swapped(CellSetStage(this, text, sh, hp))

\* -------------------------------------------------------------------- Sheet
\* Sheet::SetCell on a valid position, the new Cell (if one is emplaced) at
\* address a0: the set of [outcome, sheet, heap, allocated] it can end in.
SheetSetCellAt(pos, text, a0, sh, hp, allocd) ==
    LET sh1 == IF Present(sh, pos) THEN sh ELSE MapPut(sh, pos, a0)
        hp1 == IF Present(sh, pos) THEN hp ELSE [hp EXCEPT ![a0] = NewCell]
    IN  CellSet(a0, text, Addrs \ Live(sh1), allocd \cup { a0 }, sh1, hp1)

SheetSetCell(pos, text, sh, hp, allocd) ==
    IF ~IsValid(pos)
    THEN { [outcome |-> "InvalidPosition", sheet |-> sh, heap |-> hp, allocated |-> allocd] }
    ELSE UNION { SheetSetCellAt(pos, text, a0, sh, hp, allocd)
                 : a0 \in IF Present(sh, pos) THEN { sh[pos] }
                          ELSE AllocChoices(Addrs \ Live(sh), allocd) }

\* What GetCell returns: a null pointer, or the Cell at an address.
NullHandle == [t |-> "nullptr"]

CellHandle(a) == [t |-> "Cell", addr |-> a]

\* Sheet::GetCell
SheetGetCell(pos, sh) ==
    IF ~IsValid(pos) THEN [outcome |-> "InvalidPosition", cell |-> NullHandle]
    ELSE IF ~Present(sh, pos) THEN [outcome |-> "ok", cell |-> NullHandle]
    ELSE [outcome |-> "ok", cell |-> CellHandle(sh[pos])]

\* Sheet::ClearCell without the IsValid check: an invalid position is simply
\* not found in the map.
SheetClearCellUnchecked(pos, sh, hp) ==
    IF ~Present(sh, pos) THEN [outcome |-> "ok", sheet |-> sh, heap |-> hp]
    ELSE [outcome |-> "ok", sheet |-> MapErase(sh, pos),
          heap |-> [hp EXCEPT ![sh[pos]] = NoObject]]

\* Sheet::ClearCell: sheet_.erase(pos) destroys the Cell the map owns.
SheetClearCell(pos, sh, hp) ==
    IF ~IsValid(pos) THEN [outcome |-> "InvalidPosition", sheet |-> sh, heap |-> hp]
    ELSE IF ~Present(sh, pos) THEN [outcome |-> "ok", sheet |-> sh, heap |-> hp]
    ELSE [outcome |-> "ok", sheet |-> MapErase(sh, pos),
          heap |-> [hp EXCEPT ![sh[pos]] = NoObject]]

\* Sheet::GetPrintableSize
RECURSIVE MaxOf(_)
MaxOf(S) ==
    IF S = {} THEN 0
    ELSE LET x == CHOOSE y \in S : TRUE
             m == MaxOf(S \ { x })
         IN  IF x > m THEN x ELSE m

\* GetPrintableSize that passes over Empty cells nothing refers to.
GetPrintableSizeSkipEmpty(sh) ==
    LET counted == { p \in DOMAIN sh :
                       ~(heap[sh[p]].impl_.kind = "Empty"
                         /\ heap[sh[p]].back_dependencies_ = {}) }
    IN  [rows |-> MaxOf({ p.row + 1 : p \in counted }),
         cols |-> MaxOf({ p.col + 1 : p \in counted })]

GetPrintableSize(sh) ==
    [rows |-> MaxOf({ p.row + 1 : p \in DOMAIN sh }),
     cols |-> MaxOf({ p.col + 1 : p \in DOMAIN sh })]

\* Cell::GetText
GetText(a, hp) ==
    LET impl == hp[a].impl_
    IN  CASE impl.kind = "Empty" -> << >>
          [] impl.kind = "Text" -> impl.text_
          [] impl.kind = "Formula" -> << FORMULA_SIGN >> \o GetExpression(impl.formula_)

\* ------------------------------------------------------------------ actions
Snapshot == [sheet_ |-> sheet_, heap |-> heap]

SetCell(pos, text) ==
    /\ ~crashed
    /\ nops < MaxOps
    /\ \E r \in SheetSetCell(pos, text, sheet_, heap, allocated) :
          /\ sheet_' = r.sheet
          /\ heap' = r.heap
          /\ allocated' = r.allocated
          /\ crashed' = (r.outcome = "crash")
          /\ last' = Call("SetCell", pos, text, r.outcome, NoValue)
    /\ before' = Snapshot
    /\ nops' = nops + 1
    /\ UNCHANGED << arg, ret >>

ClearCell(pos) ==
    /\ ~crashed
    /\ nops < MaxOps
    /\ LET r == SheetClearCell(pos, sheet_, heap)
       IN  /\ sheet_' = r.sheet
           /\ heap' = r.heap
           /\ last' = Call("ClearCell", pos, << >>, r.outcome, NoValue)
    /\ UNCHANGED << allocated, crashed >>
    /\ before' = Snapshot
    /\ nops' = nops + 1
    /\ UNCHANGED << arg, ret >>

GetCell(pos) ==
    /\ ~crashed
    /\ nops < MaxOps
    /\ \E r \in { SheetGetCell(pos, sheet_) } :
           last' = Call("GetCell", pos, << >>, r.outcome, r.cell)
    /\ UNCHANGED << sheet_, heap, allocated, crashed >>
    /\ before' = Snapshot
    /\ nops' = nops + 1
    /\ UNCHANGED << arg, ret >>

\* sheet.GetCell(pos)->GetValue() on a present cell.
GetValue(pos) ==
    /\ ~crashed
    /\ nops < MaxOps
    /\ IsValid(pos)
    /\ Present(sheet_, pos)
    /\ \E r \in { CellGetValue(sheet_[pos], sheet_, heap, {}) } :
           /\ heap' = r.heap
           /\ crashed' = (r.thrown # "")
           /\ last' = Call("GetValue", pos, << >>,
                           IF r.thrown # "" THEN "crash" ELSE "ok",
                           IF r.thrown # "" THEN NoValue ELSE r.x)
    /\ UNCHANGED << sheet_, allocated >>
    /\ before' = Snapshot
    /\ nops' = nops + 1
    /\ UNCHANGED << arg, ret >>

Next ==
    \/ \E pos \in Positions, text \in Texts : SetCell(pos, text)
    \/ \E pos \in Positions : ClearCell(pos)
    \/ \E pos \in Positions : GetCell(pos)
    \/ \E pos \in Positions : GetValue(pos)

Spec == Init /\ [][Next]_vars
\* A sheet that is only written to: every call is a SetCell.
NextSetOnly == \E pos \in Positions, text \in Texts : SetCell(pos, text)

SpecSetOnly == Init /\ [][NextSetOnly]_vars

\* ------------------------------------------------- values seen through cells
\* The texts cells are given when values and their coercion are studied:
\* "", "=", "42.5", "42x", "0x1A", "=B1", "=A2", "=1/0", "=2*(1-3/B1)".
ValueTexts ==
    { << >>,
      << "=" >>,
      << "4", "2", ".", "5" >>,
      << "4", "2", "x" >>,
      << "0", "x", "1", "A" >>,
      << "=", "B", "1" >>,
      << "=", "A", "2" >>,
      << "=", "1", "/", "0" >>,
      << "=", "2", "*", "(", "1", "-", "3", "/", "B", "1", ")" >> }

ValuePositions == { A1, B1, A2 }

NextValues ==
    \/ \E pos \in ValuePositions, text \in ValueTexts : SetCell(pos, text)
    \/ \E pos \in ValuePositions : GetValue(pos)

SpecValues == Init /\ [][NextValues]_vars

\* ------------------------------------------------ Position as free functions
\* The strings FromString is given: every letter part followed by every
\* digit part.
LetterParts ==
    { <<  >>,
      << "A" >>,
      << "Z" >>,
      << "A", "A" >>,
      << "A", "Z" >>,
      << "Z", "Z" >>,
      << "X", "F", "D" >>,
      << "X", "F", "E" >>,
      << "Z", "Z", "Z" >>,
      << "A", "A", "A", "A" >>,
      << "a" >>,
      << " ", "A" >> }

DigitParts ==
    { <<  >>,
      << "0" >>,
      << "1" >>,
      << "0", "1" >>,
      << "1", "0" >>,
      << "1", "6", "3", "8", "4" >>,
      << "1", "6", "3", "8", "5" >>,
      << "2", "1", "4", "7", "4", "8", "3", "6", "4", "7" >>,
      << "2", "1", "4", "7", "4", "8", "3", "6", "4", "8" >>,
      << "1", "x" >> }

PositionStrings == { l \o d : l \in LetterParts, d \in DigitParts }

\* The positions ToString is given: corners of the sheet, the columns where
\* the number of letters changes, and positions outside the sheet.
TestRows == { 0, 8, 9, 99, MAX_ROWS - 1 }

TestCols == { 0, 25, 26, 27, 701, 702, MAX_COLS - 1 }

TestPositions ==
    { Pos(r, c) : r \in TestRows, c \in TestCols }
    \cup { NONE, Pos(MAX_ROWS, 0), Pos(0, MAX_COLS), Pos(-1, 0) }

\* A value of either type, with the value it was computed from: a Position
\* pos (from the string str), or a string str (from the Position pos).
PositionOf(p, s) == [kind |-> "Position", pos |-> p, str |-> s]

StringOf(s, p) == [kind |-> "string", pos |-> p, str |-> s]

InitPosition ==
    /\ InitSheet
    /\ arg \in { PositionOf(p, << >>) : p \in TestPositions }
               \cup { StringOf(s, NONE) : s \in PositionStrings }
    /\ ret = Nothing

\* pos.ToString()
CallToString ==
    /\ arg.kind = "Position"
    /\ ret = Nothing
    /\ ret' = StringOf(ToString(arg.pos), arg.pos)
    /\ UNCHANGED << sheet_, heap, allocated, crashed, last, before, nops, arg >>

\* Position::FromString(str), on the string given or on the one ToString
\* returned.
CallFromString ==
    /\ \/ /\ arg.kind = "string"
          /\ ret = Nothing
          /\ ret' = PositionOf(FromString(arg.str), arg.str)
       \/ /\ ret.kind = "string"
          /\ ret' = PositionOf(FromString(ret.str), ret.str)
    /\ UNCHANGED << sheet_, heap, allocated, crashed, last, before, nops, arg >>

NextPosition == CallToString \/ CallFromString

SpecPosition == InitPosition /\ [][NextPosition]_vars

\* ----------------------------------------------- printing and parsing again
\* The number of operators on the longest path of an expression tree.
RECURSIVE ExprDepth(_)
ExprDepth(e) ==
    CASE e.type = "BinaryOp" ->
            1 + (IF ExprDepth(e.lhs) > ExprDepth(e.rhs) THEN ExprDepth(e.lhs)
                 ELSE ExprDepth(e.rhs))
      [] e.type = "UnaryOp" -> 1 + ExprDepth(e.operand)
      [] OTHER -> 0

\* The atoms trees are grown from: 2.5, 1000000 (printed 1e+06) and A1.
Atoms ==
    { NumberExpr(Dbl(5, 2)), NumberExpr(Dbl(1000000, 1)), CellExpr(A1) }

\* The other operand of a binary operator put around a tree: 1234567
\* (printed 1.23457e+06), the last cell XFD16384, A1-1 and A1/1.
Operands ==
    { NumberExpr(Dbl(1234567, 1)),
      CellExpr(Pos(MAX_ROWS - 1, MAX_COLS - 1)),
      BinaryOpExpr("-", CellExpr(A1), NumberExpr(Dbl(1, 1))),
      BinaryOpExpr("/", CellExpr(A1), NumberExpr(Dbl(1, 1))) }

ExprOf(e) == [kind |-> "Expr", e |-> e]

InitPrint ==
    /\ InitSheet
    /\ arg \in { ExprOf(a) : a \in Atoms }
    /\ ret = Nothing

\* A unary operator is put around the tree.
WrapUnary(op) ==
    /\ ExprDepth(arg.e) < MaxExprDepth
    /\ arg' = ExprOf(UnaryOpExpr(op, arg.e))
    /\ ret' = Nothing
    /\ UNCHANGED << sheet_, heap, allocated, crashed, last, before, nops >>

\* A binary operator is put around the tree, as its left or right operand.
WrapBinary(op, other) ==
    /\ ExprDepth(arg.e) < MaxExprDepth
    /\ \/ arg' = ExprOf(BinaryOpExpr(op, arg.e, other))
       \/ arg' = ExprOf(BinaryOpExpr(op, other, arg.e))
    /\ ret' = Nothing
    /\ UNCHANGED << sheet_, heap, allocated, crashed, last, before, nops >>

\* GetExpression of the tree, ParseFormula of that text, GetExpression of
\* the formula parsed: [kind, text, error, again].
PrintParsePrint ==
    /\ ret = Nothing
    /\ \E text \in { GetExpression([root_expr_ |-> arg.e]) } :
       \E formula \in { ParseFormula(text) } :
          ret' = [kind |-> "printed", text |-> text, error |-> formula.error,
                  again |-> IF formula.error = "" THEN GetExpression(formula.ast_)
                            ELSE << >>]
    /\ UNCHANGED << sheet_, heap, allocated, crashed, last, before, nops, arg >>

NextPrint ==
    \/ \E op \in { "+", "-" } : WrapUnary(op)
    \/ \E op \in { "+", "-", "*", "/" }, other \in Operands : WrapBinary(op, other)
    \/ PrintParsePrint

SpecPrint == InitPrint /\ [][NextPrint]_vars

\* ============================================================== properties
\* Observers over the current state.
ValidPositions == { p \in Positions : IsValid(p) }

CellAt(p) == heap[sheet_[p]]

GetReferencedCells(p) == Range(ImplGetReferencedCells(CellAt(p).impl_))

IsFormulaCell(p) == Present(sheet_, p) /\ CellAt(p).impl_.kind = "Formula"

CacheValid(p) == IsFormulaCell(p) /\ CellAt(p).impl_.cache_.is_valid

\* p's formula mentions q.
References(p, q) == Present(sheet_, p) /\ q \in GetReferencedCells(p)

\* The positions that reach q by one or more forward edges: the formula
\* cells that reference q directly or indirectly.
RECURSIVE ReferrersClosure(_)
ReferrersClosure(S) ==
    LET more == S \cup { p \in DOMAIN sheet_ : \E q \in S : References(p, q) }
    IN  IF more = S THEN S ELSE ReferrersClosure(more)

TransitiveReferrers(q) ==
    ReferrersClosure({ p \in DOMAIN sheet_ : References(p, q) })

\* The heap with every cache marked invalid, and the value a formula cell
\* has when it is evaluated from scratch against the current contents.
NoCaches == [ a \in DOMAIN heap |-> [heap[a] EXCEPT !.impl_ = ImplInvalidateCache(@)] ]

FromScratch(p) == CellGetValue(sheet_[p], sheet_, NoCaches, {}).x

Raised == last.outcome \in { "CircularDependency", "FormulaException", "ParsingError" }

\* C1: every formula cell whose cache is marked valid holds the value that
\* evaluating its formula from scratch against the current sheet gives.
C1_CacheCoherence ==
    \A p \in DOMAIN sheet_ :
        CacheValid(p) => CellAt(p).impl_.cache_.value = FromScratch(p)

\* C2: after a successful SetCell(pos, text) the cache of the cell at pos and
\* of every cell that directly or indirectly references pos is marked invalid.
C2_TransitiveInvalidation ==
    (last.op = "SetCell" /\ last.outcome = "ok") =>
        \A p \in { last.pos } \cup TransitiveReferrers(last.pos) : ~CacheValid(p)

\* C3: the forward-edge relation has no directed cycle: no position is among
\* its own direct or indirect referrers (in particular none references itself).
C3_Acyclic ==
    \A p \in ValidPositions : p \notin TransitiveReferrers(p)

\* C3 witness: a formula cell references another formula cell, and the last
\* call was a SetCell rejected for closing a cycle.
C3_Witness ==
    /\ last.op = "SetCell"
    /\ last.outcome = "CircularDependency"
    /\ \E p, q \in DOMAIN sheet_ : p # q /\ IsFormulaCell(q) /\ References(p, q)

\* C4: for all cells A and B, A's referent list contains B's position iff B's
\* reverse-dependency set contains A; no reverse edge names a cell that does
\* not reference B or no longer exists.
C4_ReverseEdgeConsistency ==
    \A b \in DOMAIN sheet_ :
        CellAt(b).back_dependencies_ = { sheet_[a] : a \in { p \in DOMAIN sheet_ : References(p, b) } }

\* C5: a SetCell that raises leaves GetText, the cached value and validity
\* bit, GetReferencedCells and the reverse-edge set of every cell that existed
\* before the call as they were.
C5_CellAtomicity ==
    (last.op = "SetCell" /\ Raised) =>
        \A p \in DOMAIN before.sheet_ :
            /\ Present(sheet_, p)
            /\ sheet_[p] = before.sheet_[p]
            /\ GetText(sheet_[p], heap) = GetText(before.sheet_[p], before.heap)
            /\ ImplGetReferencedCells(CellAt(p).impl_)
                 = ImplGetReferencedCells(before.heap[before.sheet_[p]].impl_)
            /\ CellAt(p).back_dependencies_ = before.heap[before.sheet_[p]].back_dependencies_
            /\ CellAt(p).impl_.kind = before.heap[before.sheet_[p]].impl_.kind
            /\ IsFormulaCell(p) =>
                 CellAt(p).impl_.cache_ = before.heap[before.sheet_[p]].impl_.cache_

\* C5 witness: a SetCell on an existing formula cell with a valid cache was
\* rejected for closing a cycle.
C5_Witness ==
    /\ last.op = "SetCell"
    /\ last.outcome = "CircularDependency"
    /\ Present(before.sheet_, last.pos)
    /\ CacheValid(last.pos)

\* C6: when SetCell raises, the set of positions present in the map and
\* GetPrintableSize are the same as before the call.
C6_SheetAtomicity ==
    (last.op = "SetCell" /\ Raised) =>
        /\ DOMAIN sheet_ = DOMAIN before.sheet_
        /\ GetPrintableSize(sheet_) = GetPrintableSize(before.sheet_)

\* C7: after ClearCell(pos) on a valid position, if some other cell's formula
\* still references pos then GetCell(pos) still returns a cell, and it is Empty.
C7_ClearKeepsReferenced ==
    (last.op = "ClearCell" /\ IsValid(last.pos)
       /\ \E p \in DOMAIN sheet_ : p # last.pos /\ References(p, last.pos)) =>
        /\ Present(sheet_, last.pos)
        /\ CellAt(last.pos).impl_.kind = "Empty"

\* C8: every position in the referent list of every formula cell in the map
\* is present in the map.
C8_ReferentsResolvable ==
    \A p \in DOMAIN sheet_ : \A q \in GetReferencedCells(p) : Present(sheet_, q)

\* C9: after ClearCell(pos) on a valid position, every formula cell that
\* directly or transitively references pos has its cache marked invalid.
C9_ClearInvalidates ==
    (last.op = "ClearCell" /\ IsValid(last.pos)) =>
        \A p \in TransitiveReferrers(last.pos) : ~CacheValid(p)

\* C10 as claimed: GetPrintableSize is {max(row)+1, max(col)+1} over the
\* present cells that are not Empty with no referrers, {0, 0} when there are
\* none.
C10_SizeSkipsUnreferencedEmpty ==
    LET counted == { p \in DOMAIN sheet_ :
                       ~(CellAt(p).impl_.kind = "Empty"
                         /\ ~\E q \in DOMAIN sheet_ : References(q, p)) }
    IN  GetPrintableSize(sheet_) =
            [rows |-> MaxOf({ p.row + 1 : p \in counted }),
             cols |-> MaxOf({ p.col + 1 : p \in counted })]

\* C10 amended: GetPrintableSize is the tight bounding rectangle of every
\* position present in the map, Empty cells with no referrers included, and
\* {0, 0} when the map is empty.
C10_SizeCoversAllPresent ==
    LET size == GetPrintableSize(sheet_)
    IN  /\ \A p \in DOMAIN sheet_ : p.row < size.rows /\ p.col < size.cols
        /\ size.rows = 0 \/ \E p \in DOMAIN sheet_ : p.row + 1 = size.rows
        /\ size.cols = 0 \/ \E p \in DOMAIN sheet_ : p.col + 1 = size.cols
        /\ size.rows >= 0 /\ size.cols >= 0

\* C10 witness: after a ClearCell, an Empty cell that no formula references and
\* that has no reverse edge is the only cell in the last printable row.
C10_Witness ==
    /\ last.op = "ClearCell"
    /\ \E p \in DOMAIN sheet_ :
          /\ CellAt(p).impl_.kind = "Empty"
          /\ ~IsReferenced(sheet_[p], heap)
          /\ ~\E q \in DOMAIN sheet_ : References(q, p)
          /\ GetPrintableSize(sheet_).rows = p.row + 1
          /\ \A q \in DOMAIN sheet_ \ { p } : q.row < p.row

\* C11: SetCell, GetCell and ClearCell called with a position that is not
\* valid raise InvalidPosition and leave the map and every cell (content,
\* reverse edges, cache) as they were; GetCell on a valid position returns
\* null exactly when no cell is present there.
C11_InvalidPositionsRejected ==
    /\ (last.op \in { "SetCell", "GetCell", "ClearCell" } /\ ~IsValid(last.pos)) =>
          /\ last.outcome = "InvalidPosition"
          /\ sheet_ = before.sheet_
          /\ heap = before.heap
    /\ (last.op = "GetCell" /\ IsValid(last.pos)) =>
          /\ last.outcome = "ok"
          /\ (last.value = NullHandle) <=> ~Present(before.sheet_, last.pos)
          /\ Present(before.sheet_, last.pos) =>
                last.value = CellHandle(before.sheet_[last.pos])

\* C11 witness: ClearCell with the column just past the sheet was rejected
\* while the sheet holds a formula cell with a valid cache.
C11_Witness ==
    /\ last.op = "ClearCell"
    /\ last.pos = PastLastColumn
    /\ last.outcome = "InvalidPosition"
    /\ \E p \in DOMAIN sheet_ : CacheValid(p)

\* The kind of content the text of a SetCell call asks for.
ContentKind(text) ==
    IF text = << >> THEN "Empty"
    ELSE IF Head(text) = "=" /\ Len(text) > 1 THEN "Formula"
    ELSE "Text"

KindBefore(p) == before.heap[before.sheet_[p]].impl_.kind

\* C12: after a successful SetCell(pos, text) the kind of content at pos is
\* the one the text alone determines (Empty for "", Formula for "=" followed
\* by something, Text otherwise, the text "=" included), whatever it was
\* before, and GetReferencedCells of pos is empty unless the kind is Formula.
C12_ContentStateMachine ==
    (last.op = "SetCell" /\ last.outcome = "ok") =>
        /\ Present(sheet_, last.pos)
        /\ CellAt(last.pos).impl_.kind = ContentKind(last.text)
        /\ ContentKind(last.text) # "Formula" => GetReferencedCells(last.pos) = {}
        /\ ContentKind(last.text) = "Text" => GetText(sheet_[last.pos], heap) = last.text

\* C12 witness: a formula cell was given the one-character text "=" and the
\* call succeeded.
C12_Witness ==
    /\ last.op = "SetCell"
    /\ last.outcome = "ok"
    /\ last.text = << "=" >>
    /\ Present(before.sheet_, last.pos)
    /\ KindBefore(last.pos) = "Formula"
    /\ before.heap[before.sheet_[last.pos]].back_dependencies_ # {}

\* What GetValue of the cell at p returns in the current state.
CurrentValue(p) == CellGetValue(sheet_[p], sheet_, heap, {}).x

IsFormulaError(v) == v.t = "FormulaError"

\* C13: whenever a formula cell references a cell whose current value is a
\* FormulaError of any category, GetValue of the referring cell returns the
\* FormulaError Value, as a value.
C13_ErrorNormalisation ==
    (last.op = "GetValue" /\ IsFormulaCell(last.pos)
       /\ \E q \in GetReferencedCells(last.pos) :
             Present(sheet_, q) /\ IsFormulaError(CurrentValue(q))) =>
        /\ last.outcome = "ok"
        /\ last.value = ErrorValue("Value")

\* s is, from its first to its last character, a decimal number: an optional
\* sign and digits with an optional fraction and exponent.
IsDecimalNumber(s) ==
    /\ s # << >>
    /\ LET first == IF s[1] \in { "+", "-" } THEN 2 ELSE 1
       IN  /\ NumberLexeme(s, first) # << >>
           /\ first + Len(NumberLexeme(s, first)) - 1 = Len(s)

DecimalNumberValue(s) ==
    IF s[1] = "-" THEN DblNeg(LiteralValue(Tail(s)))
    ELSE IF s[1] = "+" THEN LiteralValue(Tail(s))
    ELSE LiteralValue(s)

\* What a reference to position p is to evaluate to, from the current
\* content of p.
ExpectedCoercion(p) ==
    IF ~Present(sheet_, p) THEN DoubleValue(Dbl(0, 1))
    ELSE IF CurrentValue(p).t = "FormulaError" THEN ErrorValue("Value")
    ELSE IF CurrentValue(p).t = "double" THEN CurrentValue(p)
    ELSE IF CurrentValue(p).s = << >> THEN DoubleValue(Dbl(0, 1))
    ELSE IF IsDecimalNumber(CurrentValue(p).s)
         THEN DoubleValue(DecimalNumberValue(CurrentValue(p).s))
    ELSE ErrorValue("Value")

\* C14: reading a formula cell that is a single reference to position p
\* gives 0 when p holds no cell or an empty string, the number when p's value
\* is a number, the parsed number when p's string is entirely a decimal
\* number, and the FormulaError Value when it is not, all for the content p
\* has when the referring cell is read.
C14_ReferenceCoercion ==
    (last.op = "GetValue" /\ last.outcome = "ok" /\ IsFormulaCell(last.pos)
       /\ CellAt(last.pos).impl_.formula_.root_expr_.type = "Cell") =>
        last.value = ExpectedCoercion(CellAt(last.pos).impl_.formula_.root_expr_.cell)

\* Evaluating e over the map sh and heap hp reaches a division whose divisor
\* is zero: operands are evaluated left before right, and nothing after a
\* throw.
RECURSIVE DividesByZero(_, _, _)
DividesByZero(e, sh, hp) ==
    CASE e.type = "BinaryOp" ->
            LET l == ExprEvaluate(e.lhs, sh, hp, {})
                r == ExprEvaluate(e.rhs, sh, l.heap, {})
            IN  \/ DividesByZero(e.lhs, sh, hp)
                \/ /\ l.thrown = ""
                   /\ \/ DividesByZero(e.rhs, sh, l.heap)
                      \/ r.thrown = "" /\ e.op = "/" /\ r.x.n = 0 /\ r.x.d # 0
      [] e.type = "UnaryOp" -> DividesByZero(e.operand, sh, hp)
      [] OTHER -> FALSE

\* The last call was GetValue on a formula cell that had no valid cache: the
\* formula was evaluated.
Evaluated ==
    /\ last.op = "GetValue"
    /\ IsFormulaCell(last.pos)
    /\ ~before.heap[sheet_[last.pos]].impl_.cache_.is_valid

\* C15: a formula cell whose evaluation divides by zero, at any depth of its
\* expression tree, has GetValue equal to the FormulaError Div0, returned as
\* a value: no enclosing operator of the formula turns it into anything else.
C15_DivisionByZero ==
    (Evaluated /\ DividesByZero(CellAt(last.pos).impl_.formula_.root_expr_,
                                before.sheet_, before.heap)) =>
        /\ last.outcome = "ok"
        /\ last.value = ErrorValue("Div0")
        /\ CurrentValue(last.pos) = ErrorValue("Div0")

\* C15 witness: the formula 2*(1-3/B1) was evaluated while B1 held a text
\* that reads as zero, the division being two operators below the root.
C15_Witness ==
    /\ Evaluated
    /\ CellAt(last.pos).impl_.formula_.root_expr_.type = "BinaryOp"
    /\ CellAt(last.pos).impl_.formula_.root_expr_.op = "*"
    /\ Present(sheet_, B1)
    /\ CellAt(B1).impl_.kind = "Empty"
    /\ last.value = ErrorValue("Div0")

\* s matches [A-Z]{1,3}[0-9]+ .
MatchesPositionPattern(s) ==
    LET lettersEnd == FindIfNotUpper(s, 1)
    IN  /\ lettersEnd - 1 \in 1..3
        /\ lettersEnd <= Len(s)
        /\ FindIfNotDigit(s, lettersEnd) = Len(s) + 1

\* The row and column number (from 1) that a string matching the pattern
\* spells; a row beyond the range of an int reads as -1.
DecodedRow(s) == StoiDigits(SubSeq(s, FindIfNotUpper(s, 1), Len(s)), 1, 0)

DecodedColumn(s) == ColumnOfLetters(SubSeq(s, 1, FindIfNotUpper(s, 1) - 1), 1, 0)

SpellsPosition(s) ==
    /\ MatchesPositionPattern(s)
    /\ DecodedRow(s) \in 1..MAX_ROWS
    /\ DecodedColumn(s) \in 1..MAX_COLS

\* C16: FromString returns exactly NONE, (-1, -1), for every string that
\* does not match [A-Z]{1,3}[0-9]+ or whose row is outside [1, MAX_ROWS] or
\* column outside [1, MAX_COLS].
C16_FromStringNone ==
    (arg.kind = "string" /\ ret.kind = "Position" /\ ~SpellsPosition(arg.str)) =>
        ret.pos = NONE

\* C17: for every valid position, FromString(ToString(pos)) is pos again;
\* the text is one to three capital letters, the column in bijective base
\* 26 (A for 0, Z for 25, AA for 26), followed by row + 1 in decimal.
C17_PositionRoundTrip ==
    (arg.kind = "Position" /\ IsValid(arg.pos) /\ ret.kind = "Position") =>
        /\ ret.pos = arg.pos
        /\ MatchesPositionPattern(ret.str)
        /\ DecodedRow(ret.str) = arg.pos.row + 1
        /\ DecodedColumn(ret.str) = arg.pos.col + 1
        /\ arg.pos.col = 0 => FindIfNotUpper(ret.str, 1) = 2 /\ ret.str[1] = "A"
        /\ arg.pos.col = 25 => FindIfNotUpper(ret.str, 1) = 2 /\ ret.str[1] = "Z"
        /\ arg.pos.col = 26 => SubSeq(ret.str, 1, FindIfNotUpper(ret.str, 1) - 1) = << "A", "A" >>
        /\ arg.pos.col = 702 =>
              SubSeq(ret.str, 1, FindIfNotUpper(ret.str, 1) - 1) = << "A", "A", "A" >>

\* C17 witness: the last cell of the sheet, XFD16384, went through ToString
\* and FromString.
C17_Witness ==
    /\ arg.kind = "Position"
    /\ arg.pos = Pos(MAX_ROWS - 1, MAX_COLS - 1)
    /\ ret.kind = "Position"
    /\ ret.str = << "X", "F", "D", "1", "6", "3", "8", "4" >>

\* The expression does not lex or does not parse as `main`.
FailsLexOrSyntax(expression) == ~ParseMain(Lex(expression, 1)).ok

\* The expression parses, and one of its cell tokens names no valid position.
HasUnusableCellToken(expression) ==
    /\ ParseMain(Lex(expression, 1)).ok
    /\ ~Walk(ParseMain(Lex(expression, 1)).e).ok

\* C18: SetCell with a formula text that fails lexically or syntactically
\* raises ParsingError, and with a formula whose cell token is out of range
\* raises FormulaException: the caller can tell the two apart.
C18_DistinctErrorKinds ==
    (last.op = "SetCell" /\ IsValid(last.pos) /\ ContentKind(last.text) = "Formula") =>
        /\ FailsLexOrSyntax(Tail(last.text)) => last.outcome = "ParsingError"
        /\ HasUnusableCellToken(Tail(last.text)) => last.outcome = "FormulaException"

\* C19: printing an expression tree, parsing the printed text and printing
\* the parsed tree gives the text of the first printing again.
C19_PrintIdempotent ==
    ret.kind = "printed" =>
        /\ ret.error = ""
        /\ ret.again = ret.text

\* C19 witness: a tree of the greatest depth with a subtraction as the right
\* operand of a subtraction, printed with parentheses and a number in
\* scientific notation, was parsed and printed again.
C19_Witness ==
    /\ ret.kind = "printed"
    /\ ExprDepth(arg.e) = MaxExprDepth
    /\ arg.e.type = "BinaryOp"
    /\ arg.e.op = "-"
    /\ arg.e.rhs.type = "BinaryOp"
    /\ arg.e.rhs.op = "-"
    /\ "(" \in Range(ret.text)
    /\ "e" \in Range(ret.text)

\* C20: in every state reached by SetCell and ClearCell calls the operations
\* finish: no GetValue comes back to a cell whose evaluation is still on the
\* call stack, also when every cache is invalid; the cycle-check walk from
\* any cell's content ends without meeting a cell on its path; and the
\* invalidation walk from any cell ends having visited cells of the sheet
\* only, each of them once.
C20_OperationsTerminate ==
    /\ ~(last.op = "GetValue" /\ last.outcome = "crash")
    /\ \A p \in DOMAIN sheet_ :
          /\ CellGetValue(sheet_[p], sheet_, NoCaches, {}).thrown = ""
          /\ ~ThrowIfHasCycle(sheet_[p], CellAt(p).impl_, sheet_, heap)
          /\ InvalidateFrom(ImplGetReferencedCells(CellAt(p).impl_), 1,
                            { sheet_[p] }, sheet_, heap) \subseteq Live(sheet_)

\* C20 witness: GetValue returned for a formula cell that references a second
\* formula cell, which references a third cell of the sheet.
C20_Witness ==
    /\ last.op = "GetValue"
    /\ last.outcome = "ok"
    /\ IsFormulaCell(last.pos)
    /\ \E q, r \in DOMAIN sheet_ :
          /\ References(last.pos, q)
          /\ IsFormulaCell(q)
          /\ References(q, r)

\* A Cell object with the memo of its formula put back to its initial state.
WithoutCache(cell) ==
    IF cell.impl_.kind = "Formula"
    THEN [cell EXCEPT !.impl_.cache_ = CellCache]
    ELSE cell

\* C21: a GetValue call leaves the map and, apart from the cached value and
\* validity bit of formula cells, every Cell object as they were (content
\* kind, text, referents, reverse-edge set); the same call made again at
\* once returns the same value.
C21_ReadsOnlyTouchCaches ==
    (last.op = "GetValue" /\ last.outcome = "ok") =>
        /\ sheet_ = before.sheet_
        /\ \A a \in Addrs : WithoutCache(heap[a]) = WithoutCache(before.heap[a])
        /\ \A p \in DOMAIN sheet_ :
              /\ GetText(sheet_[p], heap) = GetText(before.sheet_[p], before.heap)
              /\ ~IsFormulaCell(p) => CellAt(p) = before.heap[before.sheet_[p]]
        /\ CellGetValue(sheet_[last.pos], sheet_, heap, {}).x = last.value

\* C21 witness: GetValue on a formula cell without a valid cache, whose
\* formula references a second formula cell without a valid cache, returned
\* and left both caches valid.
C21_Witness ==
    /\ last.op = "GetValue"
    /\ last.outcome = "ok"
    /\ IsFormulaCell(last.pos)
    /\ ~before.heap[sheet_[last.pos]].impl_.cache_.is_valid
    /\ \E q \in DOMAIN sheet_ :
          /\ References(last.pos, q)
          /\ IsFormulaCell(q)
          /\ ~before.heap[sheet_[q]].impl_.cache_.is_valid
          /\ CacheValid(q)
    /\ CacheValid(last.pos)

\* The positions reached from the positions in S by following forward edges
\* of the cells present in the map sh, S included.
RECURSIVE ForwardClosure(_, _, _)
ForwardClosure(S, sh, hp) ==
    LET more == S \cup UNION { Range(ImplGetReferencedCells(hp[sh[p]].impl_))
                               : p \in S \cap DOMAIN sh }
    IN  IF more = S THEN S ELSE ForwardClosure(more, sh, hp)

\* The last call was SetCell(pos, "=e") on a valid position with an e that
\* parses.
SetParseableFormula ==
    /\ last.op = "SetCell"
    /\ IsValid(last.pos)
    /\ Len(last.text) > 1
    /\ Head(last.text) = FORMULA_SIGN
    /\ ParseFormula(Tail(last.text)).error = ""

\* pos is among the referents of the formula of the last call or is reached
\* from one of them in the graph as it was when the call was made.
ClosesCycle ==
    last.pos \in ForwardClosure(
        Range(FormulaGetReferencedCells(ParseFormula(Tail(last.text)).ast_)),
        before.sheet_, before.heap)

\* C22: SetCell(pos, "=e") with a parseable e raises CircularDependency
\* exactly when pos is a referent of e or is reached from a referent of e by
\* forward edges of cells in the map, and succeeds otherwise.
C22_CycleCheckExact ==
    SetParseableFormula =>
        /\ (last.outcome = "CircularDependency") <=> ClosesCycle
        /\ ~ClosesCycle => last.outcome = "ok"

\* C23: when SetCell replaces the content of a cell, every position of the
\* old and of the new referent list resolves to a cell of the map when
\* UpdateDependencies looks it up: no SetCell ends in a dereference of the
\* null pointer GetCell returns for an absent position.
C23_NoNullDereference ==
    ~(last.op = "SetCell" /\ last.outcome = "crash")

\* C24: in every state reached by SetCell calls alone, a cell's referent
\* list contains B's position iff B's reverse-dependency set contains that
\* cell, and every referent of every formula cell is present in the map.
C24_SetCellKeepsGraph ==
    /\ \A b \in DOMAIN sheet_ :
          \A a \in Addrs :
              (a \in CellAt(b).back_dependencies_)
                  <=> (\E p \in DOMAIN sheet_ : sheet_[p] = a /\ References(p, b))
    /\ \A p \in DOMAIN sheet_ :
          IsFormulaCell(p) => GetReferencedCells(p) \subseteq DOMAIN sheet_

\* C24 witness: a successful SetCell replaced a formula by content with
\* other referents, so that a cell lost its reverse edge, while another
\* formula cell of the sheet still has a referent.
C24_Witness ==
    /\ last.op = "SetCell"
    /\ last.outcome = "ok"
    /\ Present(before.sheet_, last.pos)
    /\ \E q \in DOMAIN sheet_ :
          /\ q \in Range(ImplGetReferencedCells(before.heap[before.sheet_[last.pos]].impl_))
          /\ ~References(last.pos, q)
          /\ sheet_[last.pos] \notin CellAt(q).back_dependencies_
    /\ \E p, r \in DOMAIN sheet_ : p # last.pos /\ References(p, r)

\* The referent list the cell at p had when the last call was made; empty
\* when p was not in the map.
ReferentsBefore(p) ==
    IF Present(before.sheet_, p)
    THEN Range(ImplGetReferencedCells(before.heap[before.sheet_[p]].impl_))
    ELSE {}

\* C25: a successful SetCell(pos, text) removes no position from the map and
\* moves no cell; every other cell that existed keeps its content kind, text
\* and referent list; a position it adds is pos or a referent of the new
\* formula, added as Empty; and a reverse-edge set that changed belongs to a
\* position of the old or the new referent list of pos.
C25_SetCellFrame ==
    (last.op = "SetCell" /\ last.outcome = "ok") =>
        /\ \A p \in DOMAIN before.sheet_ :
              /\ Present(sheet_, p)
              /\ sheet_[p] = before.sheet_[p]
        /\ \A p \in DOMAIN before.sheet_ \ { last.pos } :
              /\ CellAt(p).impl_.kind = before.heap[before.sheet_[p]].impl_.kind
              /\ GetText(sheet_[p], heap) = GetText(before.sheet_[p], before.heap)
              /\ ImplGetReferencedCells(CellAt(p).impl_)
                   = ImplGetReferencedCells(before.heap[before.sheet_[p]].impl_)
        /\ \A p \in DOMAIN sheet_ \ DOMAIN before.sheet_ :
              \/ p = last.pos
              \/ /\ References(last.pos, p)
                 /\ CellAt(p).impl_.kind = "Empty"
        /\ \A p \in DOMAIN before.sheet_ :
              CellAt(p).back_dependencies_ # before.heap[before.sheet_[p]].back_dependencies_
                  => p \in ReferentsBefore(last.pos) \cup GetReferencedCells(last.pos)

\* C25 witness: a successful SetCell gave a formula cell a formula with a
\* referent that was absent, which is now in the map, and took the cell out
\* of the reverse-edge set of a former referent that is still in the map.
C25_Witness ==
    /\ last.op = "SetCell"
    /\ last.outcome = "ok"
    /\ Present(before.sheet_, last.pos)
    /\ \E q \in DOMAIN sheet_ \ DOMAIN before.sheet_ : References(last.pos, q)
    /\ \E r \in ReferentsBefore(last.pos) \cap DOMAIN before.sheet_ :
          /\ ~References(last.pos, r)
          /\ CellAt(r).back_dependencies_ # before.heap[before.sheet_[r]].back_dependencies_

====
